---- MODULE Spec2Model ----
(***************************************************************************)
(* NostrRoom (cmdruid/react-nostr-auth): the room's event pipeline.        *)
(* One room over a transport client: subscription, inbound event handling, *)
(* the bounded cache, the listener registry and the publish pipeline.      *)
(* JavaScript runs every callback to completion, so each action is one     *)
(* synchronous run of a handler, up to its next await.                     *)
(***************************************************************************)
EXTENDS Integers, Sequences, FiniteSets, TLC

\* ------------------------------------------------------------------ bounds
MaxEvents == 2    \* inbound events the transport delivers
MaxCache  == 1    \* largest configured cacheSize
MaxEose   == 2    \* end-of-stored-events signals the transport delivers
MaxRegs   == 2    \* wrappers built by once / within
MaxEmits  == 2    \* calls of emit made by the application
MaxPubs   == 2    \* calls of pub
MaxNest   == 1    \* depth to which a listener re-enters emit

\* --------------------------------------------------------------- alphabets
\* Keys of the listener registry the model uses.
Names == {"a", "_connected", "_error", "_leave", "*"}
\* Listener functions of the application, by what they do when called:
\* "f" and "g" return, "thrower" throws, "reemit" calls emit(ReemitName),
\* "remover" calls remove("a", f) and remove("*", f), "adder" calls
\* on("a", g) and on("*", g).
Fns == {"f", "g", "thrower", "reemit", "remover", "adder"}
ReemitName == "a"
Authors == {"me", "peer"}
\* The pubkey of the transport client.
ClientPubkey == "me"

VARIABLES
  config,     \* this.config: cacheSize, allowEcho, encryption, tags, expiration
  cache,      \* this.cache
  events,     \* this.events: name -> listeners in insertion order
  connected,  \* this.connected
  sub,        \* this._sub: "pending" (undefined), "open", "closed" (unsub called)
  decrypting, \* _eventHandler calls awaiting Cipher.decrypt
  pubs,       \* pub calls awaiting Cipher.encrypt or client.publish
  published,  \* drafts handed to client.publish
  timers,     \* pending setTimeout callbacks of within
  elapsed,    \* wrappers of within whose setTimeout callback has run
  fired,      \* wrapper id -> times the wrapper called its function
  n,          \* history: inputs consumed, events cached or failed, leave called
  last,       \* the operation that produced this state and its outcome
  calls       \* dispatches and listener calls made by that operation

vars == <<config, cache, events, connected, sub, decrypting, pubs, published,
          timers, elapsed, fired, n, last, calls>>

\* ------------------------------------------------------------------ values
NoText    == [kind |-> "", eventName |-> "", payload |-> ""]
NoContent == [iv |-> FALSE, key |-> "", text |-> NoText]
NoEv      == [id |-> 0, author |-> "", expired |-> FALSE, valid |-> FALSE,
              content |-> NoContent]
NoHandle  == [kind |-> "", fn |-> "", id |-> 0, name |-> ""]

\* Arguments passed to listeners.
Arg(tag, s, ev) == [tag |-> tag, s |-> s, ev |-> ev]
NameArg(s)      == Arg("name", s, NoEv)
PayloadArg(p)   == Arg("payload", p, NoEv)
EnvelopeArg(ev) == Arg("envelope", "", ev)
ErrArg(e)       == Arg("error", e, NoEv)
RoomArg         == Arg("room", "", NoEv)
IdArg           == Arg("id", "", NoEv)

\* The texts a JSON document of the model can have.
ObjText(name, payload) == [kind |-> "obj", eventName |-> name, payload |-> payload]
GarbageText == [kind |-> "garbage", eventName |-> "", payload |-> ""]

\* ------------------------------------------------------- listener registry
\* A registered callback: a function passed to on, or the wrapper that once or
\* within builds around it (one new wrapper per call, fn is what it wraps).
FnHandle(fn)             == [kind |-> "on", fn |-> fn, id |-> 0, name |-> ""]
WrapHandle(kind, fn, id, name) == [kind |-> kind, fn |-> fn, id |-> id, name |-> name]

\* _getFn: the listener set of a name, empty when the name was never used.
GetFn(evs, name) == evs[name]

\* Set.has
Member(s, h) == \E i \in 1..Len(s) : s[i] = h

\* Set.add: insertion order is kept, a member is not added twice.
SetAdd(s, h) == IF Member(s, h) THEN s ELSE Append(s, h)

\* Set.delete
SetDelete(s, h) == SelectSeq(s, LAMBDA x : x # h)

\* on(eventName, fn)
On(evs, name, h) == [evs EXCEPT ![name] = SetAdd(GetFn(evs, name), h)]

\* Mutant: remove deletes nothing.
RemoveNothing(evs, name, h) == evs

\* remove(eventName, fn)
Remove(evs, name, h) == [evs EXCEPT ![name] = SetDelete(GetFn(evs, name), h)]

\* prune(eventName)
Prune(evs, name) == [evs EXCEPT ![name] = <<>>]

\* ---------------------------------------------------------------- dispatch
\* The state a dispatch works on: the registry, the record of what was called,
\* the wrappers' call counts, and whether an exception is propagating.
Dispatch(evs, cs, fd) == [events |-> evs, calls |-> cs, fired |-> fd, thrown |-> FALSE]

\* Records of `calls`: the start of a dispatch (did: its position in calls,
\* fns: the snapshot of the name's set) and one call of a listener.
EmitRec(name, fns, args, did, depth) ==
  [t |-> "emit", name |-> name, fns |-> fns, h |-> NoHandle, args |-> args,
   did |-> did, depth |-> depth]
CallRec(h, key, args, did, depth) ==
  [t |-> "call", name |-> key, fns |-> <<>>, h |-> h, args |-> args,
   did |-> did, depth |-> depth]
\* The copy of the wildcard set a dispatch takes after its first loop.
AllRec(all, did, depth) ==
  [t |-> "all", name |-> "*", fns |-> all, h |-> NoHandle, args |-> <<>>,
   did |-> did, depth |-> depth]

RECURSIVE Emit(_, _, _, _)
RECURSIVE RunNamed(_, _, _, _, _, _)
RECURSIVE RunAll(_, _, _, _, _, _)
RECURSIVE Invoke(_, _, _, _, _, _)
RECURSIVE Behave(_, _, _)

\* remove("a", fn); remove("*", fn) and on("a", fn); on("*", fn), called by
\* a listener.
RemoveAll(evs, fn) == Remove(Remove(evs, "a", FnHandle(fn)), "*", FnHandle(fn))
OnAll(evs, fn)     == On(On(evs, "a", FnHandle(fn)), "*", FnHandle(fn))

\* What a listener function does when it is called.
Behave(D, fn, depth) ==
  CASE fn = "thrower" -> [D EXCEPT !.thrown = TRUE]
    [] fn = "reemit"  -> IF depth < MaxNest
                         THEN Emit(D, ReemitName, <<>>, depth + 1)
                         ELSE D
    [] fn = "remover" -> [D EXCEPT !.events = RemoveAll(@, "f")]
    [] fn = "adder"   -> [D EXCEPT !.events = OnAll(@, "g")]
    [] OTHER          -> D

\* The wrapper of once: remove itself, then call fn.
OnceFn(D, h) == [D EXCEPT !.events = Remove(D.events, h.name, h)]

\* fn.apply(this, args) on one member of a snapshot.
Invoke(D, h, key, args, did, depth) ==
  LET D1 == [D EXCEPT !.calls = Append(@, CallRec(h, key, args, did, depth))]
      D2 == IF h.kind = "once" THEN OnceFn(D1, h) ELSE D1
      D3 == IF h.id # 0 THEN [D2 EXCEPT !.fired[h.id] = @ + 1] ELSE D2
  IN  Behave(D3, h.fn, depth)

\* Mutant: the copy of the set is walked from its last member to its first.
RunNamedReversed(D, fns, name, args, did, depth) ==
  IF fns = <<>> \/ D.thrown THEN D
  ELSE RunNamed(Invoke(D, fns[Len(fns)], name, args, did, depth),
                SubSeq(fns, 1, Len(fns) - 1), name, args, did, depth)

\* Mutant: the loop walks the set itself, so it passes over a listener that
\* was removed since the loop began.
RunNamedLive(D, fns, name, args, did, depth) ==
  IF fns = <<>> \/ D.thrown THEN D
  ELSE IF Member(GetFn(D.events, name), Head(fns))
  THEN RunNamed(Invoke(D, Head(fns), name, args, did, depth),
                Tail(fns), name, args, did, depth)
  ELSE RunNamed(D, Tail(fns), name, args, did, depth)

\* emit, first loop: the listeners of the name, over a copy of the set.
RunNamed(D, fns, name, args, did, depth) ==
  IF fns = <<>> \/ D.thrown THEN D
  ELSE RunNamed(Invoke(D, Head(fns), name, args, did, depth),
                Tail(fns), name, args, did, depth)

\* emit, second loop: the wildcard listeners; args grows on every iteration.
RunAll(D, all, eventName, args, did, depth) ==
  IF all = <<>> \/ D.thrown THEN D
  ELSE LET args2 == <<NameArg(eventName)>> \o args
       IN  RunAll(Invoke(D, Head(all), "*", args2, did, depth),
                  Tail(all), eventName, args2, did, depth)

\* emit(eventName, ...args)
Emit(D, eventName, args, depth) ==
  LET did == Len(D.calls) + 1
      fns == GetFn(D.events, eventName)
      D0  == [D EXCEPT !.calls = Append(@, EmitRec(eventName, fns, args, did, depth))]
      D1  == RunNamed(D0, fns, eventName, args, did, depth)
      all == GetFn(D1.events, "*")
      D2  == [D1 EXCEPT !.calls = Append(@, AllRec(all, did, depth))]
  IN  IF D1.thrown THEN D1
      ELSE RunAll(D2, all, eventName, args, did, depth)

\* ------------------------------------------------------------------- cache
\* Mutant: the entry is pushed and nothing is evicted.
CachePushNoShift(c, entry, size) == Append(c, entry)

\* cache.push(entry), then cache.shift() when the cache is over cacheSize.
CachePush(c, entry, size) ==
  LET c1 == Append(c, entry)
  IN  IF Len(c1) > size THEN Tail(c1) ELSE c1

CacheEntry(name, payload, ev) == [eventName |-> name, payload |-> payload, envelope |-> ev]

\* The entries of the cache at the positions in kept, in cache order.
RECURSIVE Filter(_, _)
Filter(c, kept) ==
  IF c = <<>> THEN <<>>
  ELSE Filter(SubSeq(c, 1, Len(c) - 1), kept)
         \o (IF Len(c) \in kept THEN <<c[Len(c)]>> ELSE <<>>)

\* get members: the author of every cache entry, of those the filter keeps
\* when config.inactiveLimit is defined; kept stands for the positions at
\* which isExpired(created_at, limit) is true.
members(c, limited, kept) ==
  LET list == IF limited THEN Filter(c, kept) ELSE c
  IN  [i \in 1..Len(list) |-> list[i].envelope.author]

\* ------------------------------------------------------------ signed event
\* SignedEvent.isAuthor(pubkey)
IsAuthor(ev, pubkey) == ev.author = pubkey

\* Mutant: the polarity of allowEcho is lost.
EchoedFlipped(cfg, ev) == cfg.allowEcho /\ IsAuthor(ev, ClientPubkey)

\* echoed = !allowEcho && signed.isAuthor(pubkey)
Echoed(cfg, ev)  == ~cfg.allowEcho /\ IsAuthor(ev, ClientPubkey)

\* Mutant: the gate forgets the expiry check.
DroppedNoExpiry(cfg, ev) == Echoed(cfg, ev) \/ ~ev.valid

\* _eventHandler's gate: echoed || signed.isExpired || !signed.isValid
Dropped(cfg, ev) == Echoed(cfg, ev) \/ ev.expired \/ ~ev.valid

\* ------------------------------------------------------------------ cipher
\* Cipher.decrypt(content, this.cipher): the plaintext when the content was
\* encrypted under the room's key, a failure otherwise.
DecryptOk(content) == content.key = "room"

\* JSON.parse(content) and the destructuring of { eventName, payload }.
ParseOk(text) == text.kind = "obj"

\* --------------------------------------------------------- _eventHandler
\* The outcome of one run of a handler or of pub.
\*   result: what became of the call; err: the error its catch block caught;
\*   escaped: the error the call's promise rejected with.
Outcome(D, c, result, err, escaped) ==
  [d |-> D, cache |-> c, result |-> result, err |-> err, escaped |-> escaped]

\* Mutant: no catch block, the error leaves the async function.
CatchRethrow(D, c, err) == Outcome(D, c, "rejected", err, err)

\* The catch block: this.emit('_error', err). An exception of a listener
\* called there leaves the async function.
Catch(D, c, err) ==
  LET D1 == Emit([D EXCEPT !.thrown = FALSE], "_error", <<ErrArg(err)>>, 0)
  IN  IF D1.thrown
      THEN Outcome([D1 EXCEPT !.thrown = FALSE], c, "rejected", err, "listener")
      ELSE Outcome(D1, c, "caught", err, "")

\* The try block from JSON.parse on, given the content to parse and whether
\* the decryption before it failed.
Ingest(D, c, cfg, ev, text, decryptFailed) ==
  IF decryptFailed THEN Catch(D, c, "decrypt")
  ELSE IF ~ParseOk(text) THEN Catch(D, c, "parse")
  ELSE LET c1 == CachePush(c, CacheEntry(text.eventName, text.payload, ev), cfg.cacheSize)
           D1 == Emit(D, text.eventName, <<PayloadArg(text.payload), EnvelopeArg(ev)>>, 0)
       IN  IF D1.thrown THEN Catch(D1, c1, "listener")
           ELSE Outcome(D1, c1, "accepted", "", "")

\* History: how many events were pushed onto the cache, and how many failed
\* decryption or parsing.
Count(cnt, o) ==
  [cnt EXCEPT !.cached = @ + (IF o.result = "accepted" \/ o.err = "listener" THEN 1 ELSE 0),
              !.failed = @ + (IF o.err \in {"decrypt", "parse"} THEN 1 ELSE 0)]

\* content.includes('?iv=')
HasMarker(content) == content.iv

\* ------------------------------------------------------------------ inputs
\* The contents an inbound event carries: plaintext or marked as ciphertext,
\* under the room's key or another one, well-formed JSON or not.
Contents ==
  { [iv |-> FALSE, key |-> "", text |-> ObjText("a", "p")],
    [iv |-> TRUE,  key |-> "room", text |-> ObjText("a", "p")],
    [iv |-> FALSE, key |-> "", text |-> GarbageText],
    [iv |-> TRUE,  key |-> "other", text |-> ObjText("a", "p")] }

PlainOk == [iv |-> FALSE, key |-> "", text |-> ObjText("a", "p")]

\* The events the transport delivers: every author with every content, valid
\* and unexpired; and expired or invalid events.
InEvents(id) ==
  { [id |-> id, author |-> a, expired |-> FALSE, valid |-> TRUE, content |-> c] :
      a \in Authors, c \in Contents }
  \cup
  { [id |-> id, author |-> "peer", expired |-> x, valid |-> v, content |-> PlainOk] :
      x \in BOOLEAN, v \in BOOLEAN }
  \cup
  { [id |-> id, author |-> "me", expired |-> TRUE, valid |-> TRUE, content |-> PlainOk] }

\* The events accepted from a peer.
PeerEvents(id) ==
  { ev \in InEvents(id) : ev.author = "peer" /\ ~ev.expired /\ ev.valid }

\* The configurations of the room: this.config = { ...DEFAULTS, ...config }.
DefaultTags == <<>>
DefaultExpiration == 1000 * 60 * 60 * 24
Configs(sizes, echoes, encs) ==
  [cacheSize : sizes, allowEcho : echoes, encryption : encs,
   tags : {DefaultTags}, expiration : {DefaultExpiration}]
\* The same configurations with tags given by the application.
WithTags(cfgs, tagsets) ==
  { [cfg EXCEPT !.tags = tags] : cfg \in cfgs, tags \in tagsets }

\* The record of the operation a step performed.
Op(op, ev, name, result, err, escaped) ==
  [op |-> op, ev |-> ev, name |-> name, result |-> result, err |-> err,
   escaped |-> escaped]

\* -------------------------------------------------------------------- Init
\* The state the constructor leaves: empty cache and registry, not connected,
\* the subscription requested and not yet opened.
InitWith(cfgs) ==
  /\ config \in cfgs
  /\ cache = <<>>
  /\ events = [k \in Names |-> <<>>]
  /\ connected = FALSE
  /\ sub = "pending"
  /\ decrypting = {}
  /\ pubs = {}
  /\ published = <<>>
  /\ timers = {}
  /\ elapsed = {}
  /\ fired = [i \in 1..MaxRegs |-> 0]
  /\ n = [events |-> 0, cached |-> 0, failed |-> 0, eose |-> 0, regs |-> 0,
          emits |-> 0, pubs |-> 0, left |-> 0]
  /\ last = Op("new", NoEv, "", "", "", "")
  /\ calls = <<>>

\* ------------------------------------------------------------ subscription
\* _subscribe after its await: this._sub is set and the handlers are attached.
Subscribed ==
  /\ sub = "pending"
  /\ sub' = "open"
  /\ last' = Op("subscribed", NoEv, "", "", "", "")
  /\ calls' = <<>>
  /\ UNCHANGED <<config, cache, events, connected, decrypting, pubs, published,
                 timers, elapsed, fired, n>>

\* The 'eose' handler: connected = true, emit('_connected', this).
Eose ==
  /\ sub = "open"
  /\ LET D == Emit(Dispatch(events, <<>>, fired), "_connected", <<RoomArg>>, 0)
     IN  /\ connected' = TRUE
         /\ events' = D.events
         /\ fired' = D.fired
         /\ calls' = D.calls
         /\ last' = Op("eose", NoEv, "_connected", "", "",
                       IF D.thrown THEN "listener" ELSE "")
  /\ n' = [n EXCEPT !.eose = @ + 1]
  /\ UNCHANGED <<config, cache, sub, decrypting, pubs, published, timers, elapsed>>

\* The 'event' handler: _eventHandler(event) up to its first await or its end.
Deliver(ev) ==
  /\ sub = "open"
  /\ IF Dropped(config, ev)
     THEN /\ last' = Op("event", ev, "", "dropped", "", "")
          /\ calls' = <<>>
          /\ n' = [n EXCEPT !.events = @ + 1]
          /\ UNCHANGED <<cache, events, fired, decrypting>>
     ELSE IF HasMarker(ev.content)
     THEN /\ decrypting' = decrypting \cup {ev}
          /\ last' = Op("event", ev, "", "pending", "", "")
          /\ calls' = <<>>
          /\ n' = [n EXCEPT !.events = @ + 1]
          /\ UNCHANGED <<cache, events, fired>>
     ELSE LET o == Ingest(Dispatch(events, <<>>, fired), cache, config, ev,
                          ev.content.text, FALSE)
          IN  /\ cache' = o.cache
              /\ events' = o.d.events
              /\ fired' = o.d.fired
              /\ calls' = o.d.calls
              /\ last' = Op("event", ev, ev.content.text.eventName, o.result,
                            o.err, o.escaped)
              /\ n' = Count([n EXCEPT !.events = @ + 1], o)
              /\ UNCHANGED decrypting
  /\ UNCHANGED <<config, connected, sub, pubs, published, timers, elapsed>>

\* _eventHandler after `await Cipher.decrypt`: the rest of the try block.
Decrypted(ev) ==
  /\ ev \in decrypting
  /\ decrypting' = decrypting \ {ev}
  /\ LET o == Ingest(Dispatch(events, <<>>, fired), cache, config, ev,
                     ev.content.text, ~DecryptOk(ev.content))
     IN  /\ cache' = o.cache
         /\ events' = o.d.events
         /\ fired' = o.d.fired
         /\ calls' = o.d.calls
         /\ last' = Op("decrypted", ev, ev.content.text.eventName, o.result,
                       o.err, o.escaped)
         /\ n' = Count(n, o)
  /\ UNCHANGED <<config, connected, sub, pubs, published, timers, elapsed>>

\* Mutant: leave also empties the cache.
LeaveClearsCache ==
  /\ sub' = IF sub = "open" THEN "closed" ELSE sub
  /\ connected' = FALSE
  /\ cache' = <<>>
  /\ LET D == Emit(Dispatch(events, <<>>, fired), "_leave", <<IdArg>>, 0)
     IN  /\ events' = D.events
         /\ fired' = D.fired
         /\ calls' = D.calls
         /\ last' = Op("leave", NoEv, "_leave", "", "",
                       IF D.thrown THEN "listener" ELSE "")
  /\ n' = [n EXCEPT !.left = 1]
  /\ UNCHANGED <<config, decrypting, pubs, published, timers, elapsed>>

\* leave(): this._sub?.unsub(), connected = false, emit('_leave', this.id).
Leave ==
  /\ sub' = IF sub = "open" THEN "closed" ELSE sub
  /\ connected' = FALSE
  /\ LET D == Emit(Dispatch(events, <<>>, fired), "_leave", <<IdArg>>, 0)
     IN  /\ events' = D.events
         /\ fired' = D.fired
         /\ calls' = D.calls
         /\ last' = Op("leave", NoEv, "_leave", "", "",
                       IF D.thrown THEN "listener" ELSE "")
  /\ n' = [n EXCEPT !.left = 1]
  /\ UNCHANGED <<config, cache, decrypting, pubs, published, timers, elapsed>>

\* ------------------------------------------------------ listener operations
\* on(eventName, fn)
OnA(name, fn) ==
  /\ events' = On(events, name, FnHandle(fn))
  /\ last' = Op("on", NoEv, name, "", "", "")
  /\ calls' = <<>>
  /\ UNCHANGED <<config, cache, connected, sub, decrypting, pubs, published,
                 timers, elapsed, fired, n>>

\* once(eventName, fn): a new wrapper onceFn, registered with on.
OnceA(name, fn) ==
  /\ n' = [n EXCEPT !.regs = @ + 1]
  /\ events' = On(events, name, WrapHandle("once", fn, n.regs + 1, name))
  /\ last' = Op("once", NoEv, name, "", "", "")
  /\ calls' = <<>>
  /\ UNCHANGED <<config, cache, connected, sub, decrypting, pubs, published,
                 timers, elapsed, fired>>

\* within(eventName, fn, timeout): a new wrapper withinFn, a timer that
\* removes it, and its registration with on.
WithinA(name, fn) ==
  /\ n' = [n EXCEPT !.regs = @ + 1]
  /\ LET h == WrapHandle("within", fn, n.regs + 1, name)
     IN  /\ timers' = timers \cup {h}
         /\ events' = On(events, name, h)
  /\ last' = Op("within", NoEv, name, "", "", "")
  /\ calls' = <<>>
  /\ UNCHANGED <<config, cache, connected, sub, decrypting, pubs, published,
                 elapsed, fired>>

\* The setTimeout callback of within: this.remove(eventName, withinFn).
Timer(h) ==
  /\ h \in timers
  /\ timers' = timers \ {h}
  /\ elapsed' = elapsed \cup {h}
  /\ events' = Remove(events, h.name, h)
  /\ last' = Op("timer", NoEv, h.name, "", "", "")
  /\ calls' = <<>>
  /\ UNCHANGED <<config, cache, connected, sub, decrypting, pubs, published,
                 fired, n>>

\* remove(eventName, fn) called by the application with a function it holds.
RemoveA(name, fn) ==
  /\ events' = Remove(events, name, FnHandle(fn))
  /\ last' = Op("remove", NoEv, name, "", "", "")
  /\ calls' = <<>>
  /\ UNCHANGED <<config, cache, connected, sub, decrypting, pubs, published,
                 timers, elapsed, fired, n>>

\* prune(eventName)
PruneA(name) ==
  /\ events' = Prune(events, name)
  /\ last' = Op("prune", NoEv, name, "", "", "")
  /\ calls' = <<>>
  /\ UNCHANGED <<config, cache, connected, sub, decrypting, pubs, published,
                 timers, elapsed, fired, n>>

\* emit(eventName) called by the application.
EmitA(name) ==
  /\ n' = [n EXCEPT !.emits = @ + 1]
  /\ LET D == Emit(Dispatch(events, <<>>, fired), name, <<>>, 0)
     IN  /\ events' = D.events
         /\ fired' = D.fired
         /\ calls' = D.calls
         /\ last' = Op("emit", NoEv, name, "", "",
                       IF D.thrown THEN "listener" ELSE "")
  /\ UNCHANGED <<config, cache, connected, sub, decrypting, pubs, published,
                 timers, elapsed>>

\* --------------------------------------------------------------------- pub
\* The payloads the application publishes; "cyc" stands for a value
\* JSON.stringify throws on (a cyclic object, a BigInt).
PubPayloads == {"p", "cyc"}

\* JSON.stringify({ eventName, payload })
StringifyOk(payload) == payload # "cyc"
Stringify(name, payload) == ObjText(name, payload)

\* Cipher.encrypt(content, this.cipher)
Encrypt(text) == [iv |-> TRUE, key |-> "room", text |-> text]

\* The strings of the alphabet that include '?iv='.
Includes(str) == str \in {"?iv=", "x?iv=y"}

\* The content of a draft that is not encrypted: the string JSON.stringify
\* returned, which includes '?iv=' when the event name or the payload does.
Plain(text) ==
  [iv |-> Includes(text.eventName) \/ Includes(text.payload), key |-> "",
   text |-> text]

\* A pub call suspended at an await; template stands for template.tags.
PubCall(id, name, payload, template, stage) ==
  [id |-> id, name |-> name, payload |-> payload, template |-> template,
   stage |-> stage]

\* this.id.hex
RoomIdHex == "roomid"

\* String(k) of a number that is not negative.
Digit(d) ==
  CASE d = 0 -> "0" [] d = 1 -> "1" [] d = 2 -> "2" [] d = 3 -> "3"
    [] d = 4 -> "4" [] d = 5 -> "5" [] d = 6 -> "6" [] d = 7 -> "7"
    [] d = 8 -> "8" [] d = 9 -> "9"
RECURSIVE String(_)
String(k) == IF k < 10 THEN Digit(k) ELSE String(k \div 10) \o Digit(k % 10)

\* Mutant: the override tags come before the configured tags.
TagsTemplateFirst(conf_tags, temp_tags, t, expiration) ==
  temp_tags \o conf_tags
    \o << <<"h", RoomIdHex>>, <<"expiration", String(t + expiration)>> >>

\* The tags of the draft; t is what now() returns.
Tags(conf_tags, temp_tags, t, expiration) ==
  conf_tags \o temp_tags
    \o << <<"h", RoomIdHex>>, <<"expiration", String(t + expiration)>> >>

\* The draft handed to client.publish, with the template of the call, what
\* now() returned, and whether the room was connected then.
Draft(p, content, tags, t, conn) ==
  [id |-> p.id, content |-> content, tags |-> tags, connected |-> conn,
   name |-> p.name, payload |-> p.payload, template |-> p.template, at |-> t]

\* Mutant: pub does not look at this.connected.
NotConnectedNever(conn) == FALSE

\* pub's precondition: if (!this.connected) throw new Error('Not connected to room!')
NotConnected(conn) == ~conn
NotConnectedError == "Not connected to room!"

\* pub(eventName, payload, template) up to its first await or its end; t is
\* what now() returns if the draft is built in this run.
Pub(name, payload, template, t) ==
  /\ n' = [n EXCEPT !.pubs = @ + 1]
  /\ LET id == n.pubs + 1
     IN  IF NotConnected(connected)
         THEN /\ last' = Op("pub", NoEv, name, "rejected", "", NotConnectedError)
              /\ calls' = <<>>
              /\ UNCHANGED <<events, fired, pubs, published>>
         ELSE IF ~StringifyOk(payload)
         THEN LET o == Catch(Dispatch(events, <<>>, fired), cache, "stringify")
              IN  /\ events' = o.d.events
                  /\ fired' = o.d.fired
                  /\ calls' = o.d.calls
                  /\ last' = Op("pub", NoEv, name,
                                IF o.result = "caught" THEN "undefined" ELSE "rejected",
                                o.err, o.escaped)
                  /\ UNCHANGED <<pubs, published>>
         ELSE IF config.encryption
         THEN /\ pubs' = pubs \cup {PubCall(id, name, payload, template, "encrypting")}
              /\ last' = Op("pub", NoEv, name, "pending", "", "")
              /\ calls' = <<>>
              /\ UNCHANGED <<events, fired, published>>
         ELSE LET p == PubCall(id, name, payload, template, "publishing")
              IN
              /\ pubs' = pubs \cup {p}
              /\ published' =
                   Append(published,
                          Draft(p, Plain(Stringify(name, payload)),
                                Tags(config.tags, template, t, config.expiration),
                                t, connected))
              /\ last' = Op("pub", NoEv, name, "pending", "", "")
              /\ calls' = <<>>
              /\ UNCHANGED <<events, fired>>
  /\ UNCHANGED <<config, cache, connected, sub, decrypting, timers, elapsed>>

\* pub after `await Cipher.encrypt`: the draft is built and client.publish is
\* called, or the encryption failed and the catch block runs; t is what now()
\* returns.
Encrypted(p, ok, t) ==
  /\ p \in pubs
  /\ p.stage = "encrypting"
  /\ IF ok
     THEN /\ pubs' = (pubs \ {p})
                     \cup {PubCall(p.id, p.name, p.payload, p.template, "publishing")}
          /\ published' =
               Append(published,
                      Draft(p, Encrypt(Stringify(p.name, p.payload)),
                            Tags(config.tags, p.template, t, config.expiration),
                            t, connected))
          /\ last' = Op("encrypted", NoEv, p.name, "pending", "", "")
          /\ calls' = <<>>
          /\ UNCHANGED <<events, fired>>
     ELSE LET o == Catch(Dispatch(events, <<>>, fired), cache, "encrypt")
          IN  /\ pubs' = pubs \ {p}
              /\ events' = o.d.events
              /\ fired' = o.d.fired
              /\ calls' = o.d.calls
              /\ last' = Op("encrypted", NoEv, p.name,
                            IF o.result = "caught" THEN "undefined" ELSE "rejected",
                            o.err, o.escaped)
              /\ UNCHANGED published
  /\ UNCHANGED <<config, cache, connected, sub, decrypting, timers, elapsed, n>>

\* pub after `await this.client.publish(draft)`: the event is returned, or the
\* transport failed and the catch block runs.
Published(p, ok) ==
  /\ p \in pubs
  /\ p.stage = "publishing"
  /\ pubs' = pubs \ {p}
  /\ IF ok
     THEN /\ last' = Op("published", NoEv, p.name, "event", "", "")
          /\ calls' = <<>>
          /\ UNCHANGED <<events, fired>>
     ELSE LET o == Catch(Dispatch(events, <<>>, fired), cache, "publish")
          IN  /\ events' = o.d.events
              /\ fired' = o.d.fired
              /\ calls' = o.d.calls
              /\ last' = Op("published", NoEv, p.name,
                            IF o.result = "caught" THEN "undefined" ELSE "rejected",
                            o.err, o.escaped)
  /\ UNCHANGED <<config, cache, connected, sub, decrypting, published, timers,
                 elapsed, n>>

\* ---------------------------------------------------------- specifications
\* Ingestion: the transport delivers events to a room whose application
\* registers listeners and leaves.
IngestListeners == {<<"a", "f">>, <<"a", "thrower">>, <<"_error", "thrower">>, <<"*", "f">>}

Init == InitWith(Configs(1..MaxCache, BOOLEAN, {TRUE}))

Next ==
  \/ Subscribed
  \/ n.events < MaxEvents /\ \E ev \in InEvents(n.events + 1) : Deliver(ev)
  \/ \E ev \in decrypting : Decrypted(ev)
  \/ \E l \in IngestListeners : OnA(l[1], l[2])
  \/ Leave

Spec == Init /\ [][Next]_vars

\* Publishing: the application publishes, listens for _error and _connected
\* and leaves, while the transport signals end-of-stored-events.
PubListeners == {<<"_error", "f">>, <<"_error", "thrower">>, <<"_connected", "f">>}

InitPub == InitWith(Configs({1}, {FALSE}, BOOLEAN))

NextPub ==
  \/ Subscribed
  \/ n.eose < MaxEose /\ Eose
  \/ Leave
  \/ \E l \in PubListeners : OnA(l[1], l[2])
  \/ n.pubs < MaxPubs /\ \E payload \in PubPayloads : Pub("a", payload, <<>>, 1)
  \/ \E p \in pubs, ok \in BOOLEAN : Encrypted(p, ok, 1)
  \/ \E p \in pubs, ok \in BOOLEAN : Published(p, ok)

SpecPub == InitPub /\ [][NextPub]_vars

\* Round trip: the relay sends the drafts the room published back to it.
RoundTripPayloads == {"p", "x?iv=y"}

\* The signed event the relay delivers for a draft.
SignedDraft(d, id) ==
  [id |-> id, author |-> ClientPubkey, expired |-> FALSE, valid |-> TRUE,
   content |-> d.content]

InitRoundTrip == InitWith(Configs({1}, {TRUE}, BOOLEAN))

NextRoundTrip ==
  \/ Subscribed
  \/ n.eose < MaxEose /\ Eose
  \/ \E fn \in {"f"} : OnA("_error", fn)
  \/ n.pubs < MaxPubs /\ \E payload \in RoundTripPayloads : Pub("a", payload, <<>>, 1)
  \/ \E p \in pubs : Encrypted(p, TRUE, 1)
  \/ \E p \in pubs : Published(p, TRUE)
  \/ n.events < MaxEvents /\ \E i \in 1..Len(published) :
                                Deliver(SignedDraft(published[i], n.events + 1))
  \/ \E ev \in decrypting : Decrypted(ev)

SpecRoundTrip == InitRoundTrip /\ [][NextRoundTrip]_vars

\* Membership: a cache that holds more than one entry.
InitMembers == InitWith(Configs({MaxCache + 1}, {FALSE}, {TRUE}))

NextMembers ==
  \/ Subscribed
  \/ n.events < MaxEvents + 1 /\ \E ev \in PeerEvents(n.events + 1) : Deliver(ev)
  \/ \E ev \in decrypting : Decrypted(ev)

SpecMembers == InitMembers /\ [][NextMembers]_vars

\* Leaving: a room that has cached events and has listeners for _leave, some
\* of them registered with once.
LeaveListeners == {<<"_leave", "f">>, <<"_leave", "thrower">>, <<"*", "f">>}
LeaveOnce      == {<<"_leave", "f">>, <<"*", "f">>, <<"a", "f">>}
PlainEvent(id) ==
  [id |-> id, author |-> "peer", expired |-> FALSE, valid |-> TRUE,
   content |-> PlainOk]

InitLeave == InitWith(Configs({1}, {FALSE}, {TRUE}))

NextLeave ==
  \/ Subscribed
  \/ n.eose < MaxEose /\ Eose
  \/ n.events < MaxEvents /\ Deliver(PlainEvent(n.events + 1))
  \/ \E l \in LeaveListeners : OnA(l[1], l[2])
  \/ n.regs < MaxRegs /\ \E l \in LeaveOnce : OnceA(l[1], l[2])
  \/ Leave

SpecLeave == InitLeave /\ [][NextLeave]_vars

\* Snapshots: listeners that remove and add listeners of the sets a dispatch
\* is walking.
SnapshotListeners ==
  {<<"a", "remover">>, <<"a", "adder">>, <<"a", "f">>,
   <<"*", "remover">>, <<"*", "adder">>, <<"*", "f">>}

InitSnapshot == InitWith(Configs({1}, {FALSE}, {TRUE}))

NextSnapshot ==
  \/ \E l \in SnapshotListeners : OnA(l[1], l[2])
  \/ n.emits < MaxEmits /\ EmitA("a")

SpecSnapshot == InitSnapshot /\ [][NextSnapshot]_vars

\* Reserved names: peers send events whose eventName is one of the names the
\* room uses for its own lifecycle.
ReservedNames == {"_connected", "_error", "_leave"}
ReservedEvents(id) ==
  { [id |-> id, author |-> "peer", expired |-> FALSE, valid |-> TRUE,
     content |-> [iv |-> FALSE, key |-> "", text |-> ObjText(name, "p")]] :
      name \in ReservedNames }

InitReserved == InitWith(Configs({1}, {FALSE}, {TRUE}))

NextReserved ==
  \/ Subscribed
  \/ n.eose < MaxEose /\ Eose
  \/ n.events < MaxEvents /\ \E ev \in ReservedEvents(n.events + 1) : Deliver(ev)
  \/ \E name \in ReservedNames : OnA(name, "f")
  \/ Leave

SpecReserved == InitReserved /\ [][NextReserved]_vars

\* Tags: pub with configured tags and override tags, at several readings of
\* the clock.
ConfTags  == { <<>>, << <<"t", "conf">> >>, << <<"h", "other">> >> }
Templates == { <<>>, << <<"expiration", "0">>, <<"t", "temp">> >> }
Clock     == {1, 2}

InitTags == InitWith(WithTags(Configs({1}, {FALSE}, BOOLEAN), ConfTags))

NextTags ==
  \/ Subscribed
  \/ n.eose < MaxEose /\ Eose
  \/ n.pubs < MaxPubs /\ \E template \in Templates, t \in Clock :
                            Pub("a", "p", template, t)
  \/ \E p \in pubs, t \in Clock : Encrypted(p, TRUE, t)
  \/ \E p \in pubs : Published(p, TRUE)

SpecTags == InitTags /\ [][NextTags]_vars

\* The listener registry: the application registers, removes, prunes and
\* emits; the timers of within fire.
ListenerNames == {"a"}
\* Functions registered directly, and functions handed to once and within.
PlainFns   == {"reemit", "thrower"}
WrappedFns == {"f"}

InitListeners == InitWith(Configs({1}, {FALSE}, {TRUE}))

NextListeners ==
  \/ \E name \in ListenerNames, fn \in PlainFns : OnA(name, fn)
  \/ n.regs < MaxRegs /\ \E name \in ListenerNames, fn \in WrappedFns : OnceA(name, fn)
  \/ n.regs < MaxRegs /\ \E name \in ListenerNames, fn \in WrappedFns : WithinA(name, fn)
  \/ \E h \in timers : Timer(h)
  \/ \E name \in ListenerNames, fn \in PlainFns : RemoveA(name, fn)
  \/ \E name \in ListenerNames : PruneA(name)
  \/ n.emits < MaxEmits /\ \E name \in ListenerNames : EmitA(name)

SpecListeners == InitListeners /\ [][NextListeners]_vars

\* Dispatch: inbound events and emit reach several listeners of a name and
\* several wildcard listeners, registered and removed in any order.
DispatchListeners == {<<"a", "f">>, <<"a", "g">>, <<"*", "f">>, <<"*", "g">>}

InitDispatch == InitWith(Configs({1}, {FALSE}, {TRUE}))

NextDispatch ==
  \/ Subscribed
  \/ n.events < MaxEvents /\ \E ev \in PeerEvents(n.events + 1) : Deliver(ev)
  \/ \E ev \in decrypting : Decrypted(ev)
  \/ \E l \in DispatchListeners : OnA(l[1], l[2])
  \/ \E l \in DispatchListeners : RemoveA(l[1], l[2])
  \/ n.emits < MaxEmits /\ EmitA("a")

SpecDispatch == InitDispatch /\ [][NextDispatch]_vars

\* ------------------------------------------------------------------ claims
\* What the last operation did, read from `last` and `calls`.
Handled      == last.op \in {"event", "decrypted"}
EmitsOf(name) == { i \in 1..Len(calls) : calls[i].t = "emit" /\ calls[i].name = name }
CallsOf(h)    == { i \in 1..Len(calls) : calls[i].t = "call" /\ calls[i].h = h }
CallIdx       == { i \in 1..Len(calls) : calls[i].t = "call" }
\* The envelopes handed to a dispatch by the last operation.
Dispatched ==
  UNION { { calls[i].args[j].ev : j \in 1..Len(calls[i].args) } :
          i \in 1..Len(calls) } \ {NoEv}
Cached == { cache[i].envelope : i \in 1..Len(cache) }
\* The last handler ran its event to the end of the try block's parsing.
WellFormed(ev) ==
  /\ ~ev.expired /\ ev.valid
  /\ (HasMarker(ev.content) => DecryptOk(ev.content))
  /\ ParseOk(ev.content.text)
\* The last operation is a handler that finished (is not waiting for decrypt).
Finished == Handled /\ last.result # "pending"

C2_ArrivalOrder ==
  (/\ n.events > config.cacheSize
   /\ n.cached = n.events
   /\ decrypting = {})
  => /\ Len(cache) = config.cacheSize
     /\ \A i \in 1..Len(cache) :
          cache[i].envelope.id = n.events - config.cacheSize + i

\* C3: with allowEcho false no event of the client's own pubkey is ever in
\* the cache, waiting for decryption or handed to a dispatch; with allowEcho
\* true a handler that finishes such an event (valid, unexpired, parseable)
\* has put it last in the cache and dispatched its name with
\* (payload, envelope).
C3_EchoSuppression ==
  /\ ~config.allowEcho =>
       /\ \A ev \in Cached \cup decrypting \cup Dispatched :
            ~IsAuthor(ev, ClientPubkey)
       /\ (Handled /\ IsAuthor(last.ev, ClientPubkey)) =>
            (last.result = "dropped" /\ calls = <<>>)
  /\ (/\ config.allowEcho /\ Finished
      /\ IsAuthor(last.ev, ClientPubkey) /\ WellFormed(last.ev)) =>
       /\ Len(cache) > 0 /\ cache[Len(cache)] =
            CacheEntry(last.ev.content.text.eventName,
                       last.ev.content.text.payload, last.ev)
       /\ Len(calls) > 0 /\ calls[1].t = "emit"
       /\ calls[1].name = last.ev.content.text.eventName
       /\ calls[1].args = <<PayloadArg(last.ev.content.text.payload),
                            EnvelopeArg(last.ev)>>
       /\ \A i \in 1..Len(calls[1].fns) :
            \/ CallsOf(calls[1].fns[i]) # {}
            \/ \E j \in 1..(i - 1) : calls[1].fns[j].fn = "thrower"

\* C3 witness: an own event, well-formed, was dropped although listeners
\* for its name and for the wildcard are registered.
C3_Witness ==
  /\ ~config.allowEcho /\ Handled /\ IsAuthor(last.ev, ClientPubkey)
  /\ WellFormed(last.ev) /\ events["a"] # <<>> /\ events["*"] # <<>>

\* C3, second case reached: an own event was cached and a listener called.
C3_WitnessEcho ==
  /\ config.allowEcho /\ Finished /\ IsAuthor(last.ev, ClientPubkey)
  /\ WellFormed(last.ev) /\ CallIdx # {}

\* C4: an expired or invalid event changes nothing of the cache, is never
\* queued for decryption and starts no dispatch, whatever allowEcho is: it
\* calls no named, wildcard or _error listener, now or later.
C4_ExpiryValidityGate ==
  /\ [](\A ev \in Cached \cup decrypting \cup Dispatched : ~ev.expired /\ ev.valid)
  /\ [][(last'.op = "event" /\ (last'.ev.expired \/ ~last'.ev.valid)) =>
          /\ cache' = cache
          /\ decrypting' = decrypting
          /\ events' = events
          /\ calls' = <<>>
          /\ last'.result = "dropped"]_vars

\* C4 witness: an expired or invalid event was delivered to a room with
\* listeners for its name, for the wildcard and for _error registered.
C4_Witness ==
  /\ last.op = "event" /\ (last.ev.expired \/ ~last.ev.valid)
  /\ events["a"] # <<>> /\ events["*"] # <<>> /\ events["_error"] # <<>>

\* C7: a handler whose event passed the gate and failed decryption or parsing
\* dispatches _error exactly once, with that error; it adds no cache entry and
\* calls no listener of an application event name; its promise does not
\* reject with the decryption or parsing error, and resolves when no _error
\* or wildcard listener throws. Every handler that finishes a well-formed
\* event, also after such failures, has cached it last and dispatched its name.
C7_IngestFailureCaught ==
  /\ [](Handled /\ last.err \in {"decrypt", "parse"} =>
          /\ Cardinality(EmitsOf("_error")) = 1
          /\ \A i \in EmitsOf("_error") : calls[i].args = <<ErrArg(last.err)>>
          /\ \A i \in 1..Len(calls) : calls[i].name \in {"_error", "*"}
          /\ last.ev \notin Cached
          /\ last.escaped \notin {"decrypt", "parse"}
          /\ (last.result = "rejected" =>
                \E i \in CallIdx : calls[i].h.fn = "thrower"))
  /\ [](Finished /\ ~Dropped(config, last.ev) =>
          IF WellFormed(last.ev)
          THEN /\ Len(cache) > 0 /\ cache[Len(cache)].envelope = last.ev
               /\ Len(calls) > 0 /\ calls[1].t = "emit"
               /\ calls[1].name = last.ev.content.text.eventName
               /\ calls[1].args = <<PayloadArg(last.ev.content.text.payload),
                                    EnvelopeArg(last.ev)>>
          ELSE last.err \in {"decrypt", "parse"})
  /\ [][(last'.op \in {"event", "decrypted"} /\ last'.err \in {"decrypt", "parse"})
          => cache' = cache]_vars

\* C7 witness: after an event failed decryption or parsing, a later
\* well-formed event was cached and dispatched to a listener.
C7_Witness ==
  /\ n.failed > 0
  /\ Finished /\ WellFormed(last.ev) /\ last.result = "accepted"
  /\ cache[Len(cache)].envelope = last.ev
  /\ CallIdx # {}

\* C7, the failure itself reached: _error dispatched to a registered listener.
C7_WitnessFailure ==
  /\ Handled /\ last.err \in {"decrypt", "parse"}
  /\ \E i \in CallIdx : calls[i].name = "_error"

\* C5: connected is false until the first end-of-stored-events signal, and a
\* pub call made while connected is false rejects with 'Not connected to
\* room!', hands nothing to client.publish, leaves no pub call pending and
\* starts no dispatch (no _error).
C5_PubNeedsConnection ==
  /\ [](n.eose = 0 => ~connected)
  /\ [][(last'.op = "pub" /\ ~connected) =>
          /\ last'.result = "rejected"
          /\ last'.escaped = NotConnectedError
          /\ published' = published
          /\ pubs' = pubs
          /\ calls' = <<>>
          /\ events' = events]_vars

\* C5 witness: pub was called before any end-of-stored-events signal, with
\* an _error listener registered, and was rejected.
C5_Witness ==
  /\ last.op = "pub" /\ last.escaped = NotConnectedError
  /\ n.eose = 0 /\ sub = "open"
  /\ events["_error"] # <<>>

\* C6 (as claimed): an end-of-stored-events signal after the first one calls
\* no _connected listener.
C6_ConnectedOnce ==
  (last.op = "eose" /\ n.eose > 1) =>
    \A i \in CallIdx : calls[i].name # "_connected"

\* C8 (as claimed): a pub call made while connected whose serialization,
\* encryption or transport submission fails dispatches _error once with the
\* error and resolves to undefined, whatever listeners are registered.
C8_PubFailureResolves ==
  (last.op \in {"pub", "encrypted", "published"}
     /\ last.err \in {"stringify", "encrypt", "publish"}) =>
    /\ Cardinality(EmitsOf("_error")) = 1
    /\ \A i \in EmitsOf("_error") : calls[i].args = <<ErrArg(last.err)>>
    /\ last.result = "undefined"
    /\ last.escaped = ""

\* C9 (as claimed): the wrapper that once builds calls its function at most
\* one time over all dispatches.
C9_OnceAtMostOnce ==
  \A i \in CallIdx : calls[i].h.kind = "once" => fired[calls[i].h.id] <= 1

\* A listener called after position i of `calls` threw: every dispatch in
\* progress then was abandoned.
ThrownAfter(i) ==
  \E j \in CallIdx : j > i /\ calls[j].h.fn = "thrower"
\* Listener h was called in the dispatch that starts at position i.
CalledIn(h, i) == \E j \in CallsOf(h) : calls[j].did = i

C11_WildcardArgs ==
  Finished /\ last.result = "accepted" =>
    \A i \in CallIdx :
      calls[i].name = "*" /\ calls[i].did = 1 =>
        calls[i].args = <<NameArg(last.ev.content.text.eventName),
                          PayloadArg(last.ev.content.text.payload),
                          EnvelopeArg(last.ev)>>

\* Position of a member in a listener set, and the order of two members.
Pos(set, h) == CHOOSE i \in 1..Len(set) : set[i] = h
Before(set, x, y) == Pos(set, x) < Pos(set, y)
ListenersOf(set) == { set[i] : i \in 1..Len(set) }

\* Every step keeps the listeners of a set in the order of their
\* registrations: two listeners that stay keep their order, and a listener
\* that joins comes after the ones already there.
RegistrationOrder ==
  \A k \in Names : \A x, y \in ListenersOf(events'[k]) :
    x # y =>
      IF Member(events[k], x) /\ Member(events[k], y)
      THEN Before(events'[k], x, y) <=> Before(events[k], x, y)
      ELSE Member(events[k], x) /\ ~Member(events[k], y)
             => Before(events'[k], x, y)

\* The calls of one dispatch: none under the name follows one under "*", two
\* under the same key follow the order of the set, and every listener of the
\* name and of "*" is called.
DispatchOrder ==
  /\ \A i, j \in CallIdx :
       i < j /\ calls[i].did = calls[j].did =>
         /\ ~(calls[i].name = "*" /\ calls[j].name # "*")
         /\ calls[i].name = calls[j].name =>
              Before(events[calls[i].name], calls[i].h, calls[j].h)
  /\ \A i \in 1..Len(calls) :
       calls[i].t = "emit" =>
         \A k \in {calls[i].name, "*"} : \A h \in ListenersOf(events[k]) :
           \E j \in CallsOf(h) : calls[j].did = i /\ calls[j].name = k

\* C12: within one dispatch the listeners of the event name are all called
\* before any wildcard listener, and the listeners of one set are called in
\* the order in which they were registered.
C12_NamedBeforeWildcard ==
  /\ []DispatchOrder
  /\ [][RegistrationOrder]_vars

\* C12 witness: an accepted inbound event reached two listeners of its name
\* and two wildcard listeners, "g" registered before "f" in both sets.
C12_Witness ==
  /\ Finished /\ last.result = "accepted"
  /\ Len(calls) = 6
  /\ events["a"] = <<FnHandle("g"), FnHandle("f")>>
  /\ events["*"] = <<FnHandle("g"), FnHandle("f")>>
  /\ calls[2].h.fn = "g" /\ calls[2].name = "a"
  /\ calls[6].h.fn = "f" /\ calls[6].name = "*"

\* How many pairs of a tag list carry the key k.
Pairs(tags, k) == Cardinality({ i \in 1..Len(tags) : tags[i][1] = k })

\* C13: the tags of every draft handed to client.publish are the configured
\* tags, then the override tags of the call, then ['h', id.hex], then
\* ['expiration', String(now() + expiration)]; beyond the configured and
\* override tags the draft has exactly one 'h' pair and one 'expiration' pair.
C13_DraftTags ==
  \A i \in 1..Len(published) :
    LET d == published[i]
        c == Len(config.tags)
        m == Len(d.template)
    IN  /\ Len(d.tags) = c + m + 2
        /\ SubSeq(d.tags, 1, c) = config.tags
        /\ SubSeq(d.tags, c + 1, c + m) = d.template
        /\ d.tags[c + m + 1] = <<"h", RoomIdHex>>
        /\ d.tags[c + m + 2] = <<"expiration", String(d.at + config.expiration)>>
        /\ \A k \in {"h", "expiration"} :
             Pairs(d.tags, k) = Pairs(config.tags, k) + Pairs(d.template, k) + 1

\* C13 witness: a draft of a room with a configured tag, published with two
\* override tags when the clock read 2.
C13_Witness ==
  \E i \in 1..Len(published) :
    published[i].tags = << <<"t", "conf">>, <<"expiration", "0">>, <<"t", "temp">>,
                           <<"h", "roomid">>, <<"expiration", "86400002">> >>

\* C14 (as claimed): a draft produced by pub and delivered back through
\* _eventHandler (echo allowed, valid, unexpired) yields a cache entry with
\* the event name and the payload of the pub call, and no _error, with
\* encryption enabled or disabled.
C14_RoundTrip ==
  Finished =>
    \A i \in 1..Len(published) :
      published[i].content = last.ev.content =>
        /\ last.result = "accepted"
        /\ Len(cache) > 0
        /\ cache[Len(cache)] =
             CacheEntry(published[i].name, published[i].payload, last.ev)
        /\ EmitsOf("_error") = {}

\* C15 (as claimed): the list members returns holds each author public key
\* at most once, whatever the inactivity filter keeps, also when the cache
\* holds several entries of one author.
C15_MembersDistinct ==
  \A limited \in BOOLEAN, kept \in SUBSET (1..Len(cache)) :
    LET list == members(cache, limited, kept)
    IN  \A i, j \in 1..Len(list) : list[i] = list[j] => i = j

\* What every leave() does: connected is false after it, the subscription is
\* closed if it was open, a dispatch of _leave with the room id starts over
\* the listeners of _leave, and the cache is as before.
LeaveEffect ==
  /\ connected' = FALSE
  /\ sub' = (IF sub = "open" THEN "closed" ELSE sub)
  /\ Len(calls') >= 1
  /\ calls'[1] = EmitRec("_leave", events["_leave"], <<IdArg>>, 1, 0)
  /\ cache' = cache

\* C16 (as claimed): leave() sets connected to false, cancels the open
\* subscription, emits _leave, and leaves the cache and every listener set
\* unchanged.
C16_LeaveFrameStrict ==
  [][last'.op = "leave" => LeaveEffect /\ events' = events]_vars

\* C16 (amended): leave() sets connected to false, cancels the open
\* subscription, emits _leave and leaves the cache unchanged; every listener
\* set is unchanged except that the once wrappers called by the dispatch of
\* _leave are removed from it.
C16_LeaveFrame ==
  [][last'.op = "leave" =>
       /\ LeaveEffect
       /\ \A k \in Names :
            LET Stays(h) ==
                  ~(h.kind = "once" /\ \E j \in 1..Len(calls') :
                                          calls'[j].t = "call" /\ calls'[j].h = h)
            IN  events'[k] = SelectSeq(events[k], Stays)]_vars

\* C16 witness: leave() closed an open subscription of a room with a cached
\* event, called an on listener that stays registered and a once wrapper that
\* is gone.
C16_Witness ==
  /\ last.op = "leave" /\ sub = "closed" /\ ~connected
  /\ Len(cache) > 0
  /\ \E i, j \in CallIdx :
       /\ calls[i].h.kind = "on" /\ Member(events[calls[i].name], calls[i].h)
       /\ calls[j].h.kind = "once" /\ ~Member(events[calls[j].name], calls[j].h)

\* The listeners called in the dispatch that starts at position did, under
\* the key, in the order of their calls.
CalledUnder(did, key) ==
  LET Mine(c) == c.t = "call" /\ c.did = did /\ c.name = key
      mine == SelectSeq(calls, Mine)
  IN  [j \in 1..Len(mine) |-> mine[j].h]

\* C17: a dispatch calls exactly the listeners that were in the set when its
\* loop over that set began: one that an earlier listener removed meanwhile
\* is still called, one that was added meanwhile is not; and the next
\* dispatch starts from the set as it is then.
C17_Snapshot ==
  /\ [](\A i \in 1..Len(calls) :
          /\ calls[i].t = "emit" => CalledUnder(i, calls[i].name) = calls[i].fns
          /\ calls[i].t = "all"  => CalledUnder(calls[i].did, "*") = calls[i].fns)
  /\ [][last'.op = "emit" =>
          /\ calls'[1].t = "emit"
          /\ calls'[1].fns = events[last'.name]
          /\ \A i \in 1..Len(calls') :
               calls'[i].t = "all" =>
                 \A h \in ListenersOf(calls'[i].fns) :
                   \/ Member(events["*"], h)
                   \/ \E j \in 1..(i - 1) :
                        calls'[j].t = "call" /\ calls'[j].h.fn = "adder"]_vars

\* C17 witness: in one dispatch "remover" removed f from the set of the name
\* before f's turn and "adder" added g to it; f was called under the name, g
\* was not, and afterwards g is registered and f is not.
C17_Witness ==
  /\ last.op = "emit"
  /\ calls[1].fns = <<FnHandle("remover"), FnHandle("adder"), FnHandle("f")>>
  /\ \E i \in CallsOf(FnHandle("f")) : calls[i].name = "a"
  /\ \A i \in CallsOf(FnHandle("g")) : calls[i].name # "a"
  /\ Member(events["a"], FnHandle("g"))
  /\ ~Member(events["a"], FnHandle("f"))

\* C17, the same for the wildcard set.
C17_WitnessWildcard ==
  /\ last.op = "emit"
  /\ \E i \in 1..Len(calls) :
       calls[i].t = "all"
         /\ calls[i].fns = <<FnHandle("remover"), FnHandle("adder"), FnHandle("f")>>
  /\ \E i \in CallsOf(FnHandle("f")) : calls[i].name = "*"
  /\ CallsOf(FnHandle("g")) = {}
  /\ Member(events["*"], FnHandle("g"))
  /\ ~Member(events["*"], FnHandle("f"))

\* C18 (as claimed): every draft is handed to client.publish in a state where
\* connected is true, however pub, which awaits the encryption between its
\* check of connected and the submission, interleaves with leave().
C18_PublishConnected ==
  \A i \in 1..Len(published) : published[i].connected

\* C19 (as claimed): once leave() has been called, connected is never true
\* again and no subscription of the room is open, also when leave() was
\* called before the subscription the constructor asked for was opened.
C19_LeftForGood ==
  n.left = 1 => ~connected /\ sub # "open"

\* C20 (as claimed): a listener registered for _connected, _error or _leave
\* is called only by the room's own transitions: under _connected by the
\* end-of-stored-events handler, under _leave by leave(), under _error with
\* the caught error; never because an inbound envelope names the event so.
C20_ReservedNamesInternal ==
  \A i \in CallIdx :
    /\ calls[i].name = "_connected" => last.op = "eose"
    /\ calls[i].name = "_leave" => last.op = "leave"
    /\ calls[i].name = "_error" =>
         Len(calls[i].args) = 1 /\ calls[i].args[1].tag = "error"

====
